---- MODULE Spec2Model ----
(***************************************************************************)
(* QuantumDesk: the snapshot collection-and-cache layer (src/src/data.rs). *)
(* DataHub::collect walks the configured (venue, symbol) entries in order, *)
(* and DataHub::load_snapshot decides, per entry, between a cache hit, a   *)
(* fresh fetch, a stale serve and an outright failure.  collect is called  *)
(* by QuantumDesk::tick (src/src/app.rs), which merges the outcome into    *)
(* the AppState the host displays.                                         *)
(*                                                                         *)
(* Time is a wall clock (Utc::now) that never runs backwards here; one     *)
(* unit is one second, the resolution of cache_ttl_secs.  Strings are the  *)
(* program's own strings; format! is string concatenation.                 *)
(***************************************************************************)
EXTENDS Integers, Sequences, FiniteSets, TLC

VARIABLES
    config,        \* AppConfig.venues, fixed for the process lifetime
    ttl,           \* AppConfig.cache_ttl_secs as a duration
    clock,         \* the wall clock read by Utc::now()
    cache,         \* DataHub.cache : HashMap<String, CachedSnapshot>
    status_label,  \* DataHub.status_label
    pc,            \* "idle" between calls of collect, "collecting" inside one
    idx,           \* position of collect's loops in the flattened configuration
    snapshots,     \* collect's `snapshots`; once idle, the returned outcome's
    warnings,      \* collect's `warnings`; once idle, the returned outcome's
    returned,      \* whether collect has returned an outcome yet
    trace,         \* per processed entry of this round: what load_snapshot did
    round_start,   \* the clock when the current (or last) round began
    prev,          \* summary of the round before the current (or last) one
    market_snapshots, \* AppState.market_snapshots, what the host displays
    state_warnings,   \* AppState.warnings, what the host displays
    tick_result       \* what the last QuantumDesk::tick returned, if any

vars == <<config, ttl, clock, cache, status_label, pc, idx, snapshots,
          warnings, returned, trace, round_start, prev,
          market_snapshots, state_warnings, tick_result>>

---------------------------------------------------------------------------
(* Bounds of the model *)

(* The clock starts at 1 and stops advancing at MaxTime. *)
MaxTime == 3

(* The most the clock advances between two consecutive reads in a round. *)
MaxStep == 1

(* Upstream prices are 1..MaxPrice; 0 is the adapters' default. *)
MaxPrice == 2

(* Option<T> *)
None == <<>>
Some(x) == <<x>>
IsSome(o) == Len(o) = 1
Unwrap(o) == o[1]
UnwrapOr(o, d) == IF IsSome(o) THEN o[1] ELSE d
OrElse(o, p) == IF IsSome(o) THEN o ELSE p

Times == 0..MaxTime
Prices == 1..MaxPrice
PriceOpt == {None} \cup {Some(p) : p \in Prices}

---------------------------------------------------------------------------
(* Configuration: src/src/config.rs *)

VenueConfig(name, symbols) == [name |-> name, symbols |-> symbols]

(* The configurations explored.  AppConfig's fields are public, so a host  *)
(* may hand collect any venue list: one with no venue, with a venue that   *)
(* has no symbol, with a pair fetch_snapshot does not know, or with the    *)
(* same pair twice.  (AppConfig::default lists the four known pairs.)      *)
Configs ==
    { <<>>,
      <<VenueConfig("Bitfinex", <<"tBTCUSD">>),
        VenueConfig("Deribit", <<"BTC-USD">>)>>,
      <<VenueConfig("Kraken", <<"XBTUSD">>),
        VenueConfig("Bitfinex", <<"tBTCF0:USTF0">>)>>,
      <<VenueConfig("Bitfinex", <<>>),
        VenueConfig("Deribit", <<"BTC-PERPETUAL">>)>>,
      <<VenueConfig("Deribit", <<"BTC-USD", "BTC-USD">>)>> }

(* cache_ttl_secs: 0 makes every entry expired at once *)
TTLs == {0, 2}

(* for venue in &config.venues { for symbol in &venue.symbols { .. } } *)
RECURSIVE SymbolsOf(_, _)
SymbolsOf(name, symbols) ==
    IF symbols = <<>> THEN <<>>
    ELSE <<[venue |-> name, symbol |-> Head(symbols)]>>
         \o SymbolsOf(name, Tail(symbols))

RECURSIVE Entries(_)
Entries(venues) ==
    IF venues = <<>> THEN <<>>
    ELSE SymbolsOf(Head(venues).name, Head(venues).symbols)
         \o Entries(Tail(venues))

---------------------------------------------------------------------------
(* Snapshots and upstream replies: src/src/data.rs *)

MarketSnapshot(venue, label, symbol, spot, perp, updated) ==
    [venue |-> venue, instrument_label |-> label, symbol |-> symbol,
     spot_price |-> spot, perp_price |-> perp, last_updated |-> updated]

(* What one HTTP GET comes back with.  kind "transport": send() failed;    *)
(* "decode": json() failed; "empty": a well-formed body with nothing in    *)
(* it; "ok": a body whose optional fields may each be absent.  ts is the   *)
(* upstream's own timestamp, already through ms_to_datetime.               *)
Reply(kind, price, mark, last, ts) ==
    [kind |-> kind, price |-> price, mark |-> mark, last |-> last, ts |-> ts]

Failed(kind) == Reply(kind, None, None, None, None)

TsOpt == {None, Some(0)}

TickerReplies ==
    {Failed("transport"), Failed("decode")}
    \cup {Reply("ok", p, None, None, None) : p \in PriceOpt}

StatusReplies ==
    {Failed("transport"), Failed("decode"), Failed("empty")}
    \cup {Reply("ok", None, m, None, None) : m \in PriceOpt}

IndexReplies ==
    {Failed("transport"), Failed("decode")}
    \cup {Reply("ok", p, None, None, t) : p \in PriceOpt, t \in TsOpt}

DeribitTickerReplies ==
    {Failed("transport"), Failed("decode")}
    \cup {Reply("ok", p, m, l, t) :
             p \in PriceOpt, m \in PriceOpt, l \in {None, Some(1)}, t \in TsOpt}

(* The replies the upstream may give to the requests of one fetch: a pair, *)
(* the second used only by the adapter that sends a second request.        *)
RepliesFor(venue, symbol) ==
    IF venue = "Bitfinex" /\ symbol = "tBTCUSD"
        THEN TickerReplies \X {Failed("transport")}
    ELSE IF venue = "Bitfinex" /\ symbol = "tBTCF0:USTF0"
        THEN TickerReplies \X StatusReplies
    ELSE IF venue = "Deribit" /\ symbol = "BTC-USD"
        THEN IndexReplies \X {Failed("transport")}
    ELSE IF venue = "Deribit" /\ symbol = "BTC-PERPETUAL"
        THEN DeribitTickerReplies \X {Failed("transport")}
    ELSE {<<Failed("transport"), Failed("transport")>>}

(* Result<MarketSnapshot>, with the number of HTTP requests it took.  In  *)
(* the adapters below t is the adapter's own Utc::now(), taken to be the *)
(* time load_snapshot read just before; load_snapshot overwrites it.     *)
Ok(snapshot, requests) ==
    [ok |-> TRUE, snapshot |-> Some(snapshot), err |-> "", requests |-> requests]

Err(msg, requests) ==
    [ok |-> FALSE, snapshot |-> None, err |-> msg, requests |-> requests]

fetch_bitfinex_spot(symbol, replies, t) ==
    LET r == replies[1] IN
    IF r.kind = "transport" THEN Err("bitfinex spot request failed", 1)
    ELSE IF r.kind = "decode" THEN Err("bitfinex spot payload parse failed", 1)
    ELSE IF ~IsSome(r.price)
        THEN Err("bitfinex ticker missing last price field", 1)
    ELSE Ok(MarketSnapshot("Bitfinex", "Spot", symbol, Unwrap(r.price), None, t), 1)

fetch_bitfinex_perp(symbol, replies, t) ==
    LET r == replies[1]
        s == replies[2]
    IN
    IF r.kind = "transport" THEN Err("bitfinex perp ticker request failed", 1)
    ELSE IF r.kind = "decode" THEN Err("bitfinex perp ticker parse failed", 1)
    ELSE IF ~IsSome(r.price) THEN Err("bitfinex perp ticker missing last price", 1)
    ELSE IF s.kind = "transport" THEN Err("bitfinex deriv status request failed", 2)
    ELSE IF s.kind = "decode" THEN Err("bitfinex deriv status parse failed", 2)
    ELSE IF s.kind = "empty" THEN Err("bitfinex deriv status empty", 2)
    ELSE LET last_price == Unwrap(r.price)
             mark_price == UnwrapOr(s.mark, last_price)
         IN  Ok(MarketSnapshot("Bitfinex", "Perp", symbol, mark_price,
                               Some(last_price), t), 2)

fetch_deribit_index(symbol, replies, t) ==
    LET r == replies[1] IN
    IF r.kind = "transport" THEN Err("deribit index request failed", 1)
    ELSE IF r.kind = "decode" \/ ~IsSome(r.price)
        THEN Err("deribit index parse failed", 1)
    ELSE Ok(MarketSnapshot("Deribit", "Index", symbol, Unwrap(r.price), None,
                           UnwrapOr(r.ts, t)), 1)

fetch_deribit_perp(symbol, replies, t) ==
    LET r == replies[1] IN
    IF r.kind = "transport" THEN Err("deribit ticker request failed", 1)
    ELSE IF r.kind = "decode" THEN Err("deribit ticker parse failed", 1)
    ELSE LET index_price == r.price
             mark_price == UnwrapOr(OrElse(OrElse(r.mark, r.last), index_price), 0)
             spot_price == UnwrapOr(index_price, mark_price)
         IN  Ok(MarketSnapshot("Deribit", "Perp", symbol, spot_price,
                               Some(mark_price), UnwrapOr(r.ts, t)), 1)

(* fetch_snapshot with the last arm sending any other pair to the spot    *)
(* adapter instead of failing                                             *)
fetch_snapshot_SpotByDefault(venue, symbol, replies, t) ==
    IF venue = "Bitfinex" /\ symbol = "tBTCF0:USTF0"
        THEN fetch_bitfinex_perp(symbol, replies, t)
    ELSE IF venue = "Deribit" /\ symbol = "BTC-USD"
        THEN fetch_deribit_index(symbol, replies, t)
    ELSE IF venue = "Deribit" /\ symbol = "BTC-PERPETUAL"
        THEN fetch_deribit_perp(symbol, replies, t)
    ELSE fetch_bitfinex_spot(symbol, replies, t)

fetch_snapshot(venue, symbol, replies, t) ==
    IF venue = "Bitfinex" /\ symbol = "tBTCUSD"
        THEN fetch_bitfinex_spot(symbol, replies, t)
    ELSE IF venue = "Bitfinex" /\ symbol = "tBTCF0:USTF0"
        THEN fetch_bitfinex_perp(symbol, replies, t)
    ELSE IF venue = "Deribit" /\ symbol = "BTC-USD"
        THEN fetch_deribit_index(symbol, replies, t)
    ELSE IF venue = "Deribit" /\ symbol = "BTC-PERPETUAL"
        THEN fetch_deribit_perp(symbol, replies, t)
    ELSE Err("unsupported venue/symbol combination: " \o venue \o " " \o symbol, 0)

---------------------------------------------------------------------------
(* The cache and load_snapshot: src/src/data.rs *)

cache_key(venue, symbol) == venue \o "::" \o symbol

CachedSnapshot(snapshot, fetched_at) ==
    [snapshot |-> snapshot, fetched_at |-> fetched_at]

EmptyCache == [k \in {} |-> CachedSnapshot(None, 0)]

(* HashMap::get *)
Get(map, key) == IF key \in DOMAIN map THEN Some(map[key]) ELSE None

(* HashMap::insert *)
Insert(map, key, entry) ==
    [k \in DOMAIN map \cup {key} |-> IF k = key THEN entry ELSE map[k]]

(* CacheHit with the comparison turned round: age > ttl *)
CacheHit_Reversed(map, key, now, t) ==
    /\ IsSome(Get(map, key))
    /\ now - Unwrap(Get(map, key)).fetched_at > t

(* if let Some(entry) = cache.get(&key) { if now - entry.fetched_at < ttl *)
CacheHit(map, key, now, t) ==
    /\ IsSome(Get(map, key))
    /\ now - Unwrap(Get(map, key)).fetched_at < t

(* SnapshotOutcome, Err(..) included; `fetch` tells whether fetch_snapshot *)
(* was called and how it ended, `err` its error, `requests` how many GETs  *)
(* it sent.                                                                *)
Loaded(tag, snapshot, warning, newcache, fetch, err, requests) ==
    [tag |-> tag, snapshot |-> snapshot, warning |-> warning,
     cache |-> newcache, fetch |-> fetch, err |-> err, requests |-> requests]

(* FetchOk without `snapshot.last_updated = now`: the adapter's own stamp *)
(* is kept.                                                              *)
FetchOk_Unstamped(map, key, snapshot, now, requests) ==
    Loaded("Fresh", Some(snapshot), None,
           Insert(map, key, CachedSnapshot(snapshot, now)), "ok", "", requests)

(* FetchOk without self.cache.insert(..) *)
FetchOk_NoInsert(map, key, snapshot, now, requests) ==
    LET stamped == [snapshot EXCEPT !.last_updated = now] IN
    Loaded("Fresh", Some(stamped), None, map, "ok", "", requests)

(* Ok(mut snapshot) => { .. } *)
FetchOk(map, key, snapshot, now, requests) ==
    LET stamped == [snapshot EXCEPT !.last_updated = now] IN
    Loaded("Fresh", Some(stamped), None,
           Insert(map, key, CachedSnapshot(stamped, now)), "ok", "", requests)

(* FetchErr without the fallback to the cached entry *)
FetchErr_NoFallback(map, key, venue, symbol, fetch_err, requests) ==
    Loaded("Err", None,
           Some(venue \o " " \o symbol
                \o " fetch failed and no cache available (" \o fetch_err \o ")"),
           map, "err", fetch_err, requests)

(* FetchErr serving the cached entry once and then evicting it *)
FetchErr_Evict(map, key, venue, symbol, fetch_err, requests) ==
    IF IsSome(Get(map, key))
    THEN Loaded("Stale", Some(Unwrap(Get(map, key)).snapshot),
                Some(venue \o " " \o symbol \o " fetch failed (" \o fetch_err
                     \o "); showing cached data"),
                [k \in DOMAIN map \ {key} |-> map[k]], "err", fetch_err, requests)
    ELSE Loaded("Err", None,
                Some(venue \o " " \o symbol
                     \o " fetch failed and no cache available (" \o fetch_err \o ")"),
                map, "err", fetch_err, requests)

(* Err(fetch_err) => { .. } *)
FetchErr(map, key, venue, symbol, fetch_err, requests) ==
    IF IsSome(Get(map, key))
    THEN Loaded("Stale", Some(Unwrap(Get(map, key)).snapshot),
                Some(venue \o " " \o symbol \o " fetch failed (" \o fetch_err
                     \o "); showing cached data"),
                map, "err", fetch_err, requests)
    ELSE Loaded("Err", None,
                Some(venue \o " " \o symbol
                     \o " fetch failed and no cache available (" \o fetch_err \o ")"),
                map, "err", fetch_err, requests)

(* load_snapshot remembering a failure: the served stale entry is put     *)
(* back with fetched_at = now, so it is not fetched again within the TTL  *)
load_snapshot_RemembersFailure(map, venue, symbol, t, now, replies) ==
    LET key == cache_key(venue, symbol) IN
    IF CacheHit(map, key, now, t)
    THEN Loaded("Fresh", Some(Unwrap(Get(map, key)).snapshot), None, map, "none", "", 0)
    ELSE LET res == fetch_snapshot(venue, symbol, replies, now) IN
         IF res.ok
         THEN FetchOk(map, key, Unwrap(res.snapshot), now, res.requests)
         ELSE LET out == FetchErr(map, key, venue, symbol, res.err, res.requests) IN
              IF out.tag = "Stale"
              THEN [out EXCEPT !.cache =
                       Insert(map, key, CachedSnapshot(Unwrap(out.snapshot), now))]
              ELSE out

load_snapshot(map, venue, symbol, t, now, replies) ==
    LET key == cache_key(venue, symbol) IN
    IF CacheHit(map, key, now, t)
    THEN Loaded("Fresh", Some(Unwrap(Get(map, key)).snapshot), None, map, "none", "", 0)
    ELSE LET res == fetch_snapshot(venue, symbol, replies, now) IN
         IF res.ok
         THEN FetchOk(map, key, Unwrap(res.snapshot), now, res.requests)
         ELSE FetchErr(map, key, venue, symbol, res.err, res.requests)

---------------------------------------------------------------------------
(* collect: src/src/data.rs *)

(* PushSnapshot with the Stale arm pushing only its warning *)
PushSnapshot_DropStale(snaps, loaded) ==
    IF loaded.tag = "Fresh"
    THEN Append(snaps, Unwrap(loaded.snapshot))
    ELSE snaps

(* PushSnapshot with snapshots.insert(0, ..) for snapshots.push(..) *)
PushSnapshot_Prepend(snaps, loaded) ==
    IF loaded.tag \in {"Fresh", "Stale"}
    THEN <<Unwrap(loaded.snapshot)>> \o snaps
    ELSE snaps

(* match self.load_snapshot(..) { Ok(Fresh) .. Ok(Stale) .. Err .. } *)
PushSnapshot(snaps, loaded) ==
    IF loaded.tag \in {"Fresh", "Stale"}
    THEN Append(snaps, Unwrap(loaded.snapshot))
    ELSE snaps

(* PushWarning with the Stale arm dropping its warning *)
PushWarning_DropStale(warns, loaded) ==
    IF loaded.tag = "Err"
    THEN Append(warns, Unwrap(loaded.warning))
    ELSE warns

(* PushWarning with the Err arm dropping its message: Err(_) => {} *)
PushWarning_DropErr(warns, loaded) ==
    IF loaded.tag = "Stale"
    THEN Append(warns, Unwrap(loaded.warning))
    ELSE warns

PushWarning(warns, loaded) ==
    IF loaded.tag \in {"Stale", "Err"}
    THEN Append(warns, Unwrap(loaded.warning))
    ELSE warns

(* Advance with a failure ending the loops, as `?` on load_snapshot would *)
Advance_AbortOnErr(i, loaded) ==
    IF loaded.tag = "Err" THEN Len(Entries(config)) + 1 ELSE i + 1

(* The for loops go on to the next entry whatever the arm taken. *)
Advance(i, loaded) == i + 1

(* StatusLabel that lets a single warning pass as stable *)
StatusLabel_OneWarningStable(warns) ==
    IF Len(warns) <= 1 THEN "Live feeds stable" ELSE "Live feeds (degraded)"

StatusLabel(warns) ==
    IF warns = <<>> THEN "Live feeds stable" ELSE "Live feeds (degraded)"

(* What the round remembers of one call of load_snapshot: the entry, if a *)
(* cache entry existed, how the fetch went and what load_snapshot returned.*)
TraceEntry(entry, before, loaded) ==
    [venue |-> entry.venue, symbol |-> entry.symbol,
     had |-> IsSome(before), fetch |-> loaded.fetch, err |-> loaded.err,
     requests |-> loaded.requests, tag |-> loaded.tag]

Hits(tr) == Cardinality({i \in 1..Len(tr) : tr[i].fetch = "none"})

(* QuantumDesk::new: the snapshots the host displays before its first    *)
(* tick, prices in hundredths, stamped with the time of construction     *)
Placeholders(now) ==
    << MarketSnapshot("Bitfinex", "Spot", "tBTCUSD", 6542012, None, now),
       MarketSnapshot("Bitfinex", "Perp", "tBTCF0:USTF0", 6541025,
                      Some(6543050), now),
       MarketSnapshot("Deribit", "Index", "BTC-USD", 6539800, None, now),
       MarketSnapshot("Deribit", "Perp", "BTC-PERPETUAL", 6540289,
                      Some(6542011), now) >>

(* if !snapshots.is_empty() { self.state.market_snapshots = snapshots; } *)
MergeSnapshots(shown, snaps) == IF snaps # <<>> THEN snaps ELSE shown

(* MergeWarnings keeping the displayed warnings when the round had none *)
MergeWarnings_KeepIfNone(shown, warns) == IF warns # <<>> THEN warns ELSE shown

(* self.state.warnings = warnings; *)
MergeWarnings(shown, warns) == warns

(* What is remembered of the round before the current one *)
RoundSummary(start, tr, snaps, warns) ==
    [start |-> start, hits |-> Hits(tr), clean |-> warns = <<>>,
     snapshots |-> snaps, fetch |-> [i \in 1..Len(tr) |-> tr[i].fetch]]

NoRound ==
    [start |-> 0, hits |-> 0, clean |-> FALSE, snapshots |-> <<>>,
     fetch |-> <<>>]

Init ==
    /\ config \in Configs
    /\ ttl \in TTLs
    /\ clock = 1
    /\ cache = EmptyCache
    /\ status_label = "Initializing feeds"
    /\ pc = "idle"
    /\ idx = 1
    /\ snapshots = <<>>
    /\ warnings = <<>>
    /\ returned = FALSE
    /\ trace = <<>>
    /\ round_start = 1
    /\ prev = NoRound
    /\ market_snapshots = Placeholders(1)
    /\ state_warnings = <<>>
    /\ tick_result = None

(* The host's refresh loop lets time pass between two ticks. *)
Wait ==
    /\ pc = "idle"
    /\ clock < MaxTime
    /\ clock' = clock + 1
    /\ UNCHANGED <<config, ttl, cache, status_label, pc, idx, snapshots,
                   warnings, returned, trace, round_start, prev,
                   market_snapshots, state_warnings, tick_result>>

(* collect is entered: its locals are fresh.  The outcome of the round   *)
(* before is the caller's by now; the model keeps a summary of it.       *)
CollectBegin ==
    /\ pc = "idle"
    /\ pc' = "collecting"
    /\ idx' = 1
    /\ snapshots' = <<>>
    /\ warnings' = <<>>
    /\ trace' = <<>>
    /\ round_start' = clock
    /\ prev' = IF returned
               THEN RoundSummary(round_start, trace, snapshots, warnings)
               ELSE NoRound
    /\ UNCHANGED <<config, ttl, clock, cache, status_label, returned,
                   market_snapshots, state_warnings, tick_result>>

(* One pass of the loop body: load_snapshot for the next configured entry  *)
(* and the match on its result.  d is the time gone by since the clock was *)
(* last read, replies what the upstream answers if it is asked.            *)
LoadNext ==
    /\ pc = "collecting"
    /\ idx <= Len(Entries(config))
    /\ LET entry == Entries(config)[idx] IN
       \E d \in 0..MaxStep, replies \in RepliesFor(entry.venue, entry.symbol) :
          /\ clock + d <= MaxTime
          /\ LET now == clock + d
                 loaded == load_snapshot(cache, entry.venue, entry.symbol,
                                         ttl, now, replies)
             IN  /\ clock' = now
                 /\ cache' = loaded.cache
                 /\ snapshots' = PushSnapshot(snapshots, loaded)
                 /\ warnings' = PushWarning(warnings, loaded)
                 /\ trace' = Append(trace,
                        TraceEntry(entry,
                                   Get(cache, cache_key(entry.venue, entry.symbol)),
                                   loaded))
                 /\ idx' = Advance(idx, loaded)
    /\ UNCHANGED <<config, ttl, status_label, pc, returned, round_start, prev,
                   market_snapshots, state_warnings, tick_result>>

(* The loops are over: the status label is set and the two lists are     *)
(* moved into the returned CollectionOutcome.  collect returns into      *)
(* QuantumDesk::tick, which merges the outcome into the AppState and     *)
(* returns Ok(()).                                                       *)
CollectEnd ==
    /\ pc = "collecting"
    /\ idx > Len(Entries(config))
    /\ status_label' = StatusLabel(warnings)
    /\ returned' = TRUE
    /\ pc' = "idle"
    /\ market_snapshots' = MergeSnapshots(market_snapshots, snapshots)
    /\ state_warnings' = MergeWarnings(state_warnings, warnings)
    /\ tick_result' = Some("Ok")
    /\ UNCHANGED <<config, ttl, clock, cache, idx, snapshots, warnings, trace,
                   round_start, prev>>

Next ==
    \/ Wait
    \/ CollectBegin
    \/ LoadNext
    \/ CollectEnd

Spec == Init /\ [][Next]_vars

TypeOK ==
    /\ clock \in Times
    /\ pc \in {"idle", "collecting"}
    /\ idx \in 1..(Len(Entries(config)) + 1)
    /\ Len(trace) = idx - 1
    /\ tick_result \in {None, Some("Ok")}
    /\ IsSome(tick_result) <=> returned
    /\ Len(market_snapshots) >= 1

---------------------------------------------------------------------------
(* Properties of one pass of the loop, stated on the step that makes it *)

Last(seq) == seq[Len(seq)]

(* A step in which load_snapshot ran for the entry at idx *)
LoadStep ==
    /\ pc = "collecting"
    /\ idx <= Len(Entries(config))
    /\ Len(trace') = Len(trace) + 1

CurEntry == Entries(config)[idx]

CurKey == cache_key(CurEntry.venue, CurEntry.symbol)

(* The entry's cache entry is younger than the TTL at time now *)
FreshEntryAt(now) ==
    /\ CurKey \in DOMAIN cache
    /\ now - cache[CurKey].fetched_at < ttl

StaleWarning(venue, symbol, reason) ==
    venue \o " " \o symbol \o " fetch failed (" \o reason \o "); showing cached data"

NoCacheWarning(venue, symbol, reason) ==
    venue \o " " \o symbol \o " fetch failed and no cache available (" \o reason \o ")"

(* C1: an entry whose cache entry is younger than the TTL when it is      *)
(* processed is served from the cache: fetch_snapshot is not called and   *)
(* no request is sent, the cached snapshot is appended unchanged, no      *)
(* warning is added and the cache stays as it was.                        *)
C1_FreshEntryServedFromCache ==
    [][ (LoadStep /\ FreshEntryAt(clock')) =>
            /\ Last(trace').fetch = "none"
            /\ Last(trace').requests = 0
            /\ snapshots' = Append(snapshots, cache[CurKey].snapshot)
            /\ warnings' = warnings
            /\ cache' = cache ]_vars

C1_Witness ==
    \E i \in 1..Len(trace) :
        trace[i].had /\ trace[i].fetch = "none" /\ trace[i].tag = "Fresh"
(* Where the snapshot of the i-th processed entry sits in `snapshots` *)
SnapIndex(i) == Cardinality({j \in 1..i : trace[j].tag # "Err"})

TraceKey(i) == cache_key(trace[i].venue, trace[i].symbol)

RoundOver == pc = "idle" /\ returned

C3_FailedFetchServesCached ==
    [][ (LoadStep /\ Last(trace').fetch = "err" /\ CurKey \in DOMAIN cache) =>
            /\ snapshots' = Append(snapshots, cache[CurKey].snapshot)
            /\ Last(trace').err # ""
            /\ warnings' = Append(warnings,
                   StaleWarning(CurEntry.venue, CurEntry.symbol, Last(trace').err)) ]_vars

(* A failed fetch fell back on the entry cached for its key *)
C3_Witness ==
    \E i \in 1..Len(trace) :
        /\ trace[i].fetch = "err" /\ trace[i].had /\ trace[i].tag = "Stale"
        /\ Len(warnings) >= 1

(* C4: an entry whose fetch fails while its key has no cache entry adds   *)
(* no snapshot and exactly one warning, made of the entry's venue and     *)
(* symbol and the fetch's error; collect goes on with the next entry.     *)
C4_FailedFetchWithoutCache ==
    [][ (LoadStep /\ Last(trace').fetch = "err" /\ CurKey \notin DOMAIN cache) =>
            /\ snapshots' = snapshots
            /\ Last(trace').err # ""
            /\ warnings' = Append(warnings,
                   NoCacheWarning(CurEntry.venue, CurEntry.symbol, Last(trace').err))
            /\ pc' = "collecting"
            /\ idx' = idx + 1 ]_vars

(* A fetch failed with nothing cached, and the round went on to its end *)
C4_Witness ==
    /\ RoundOver
    /\ \E i \in 1..Len(trace) :
          /\ trace[i].fetch = "err" /\ ~trace[i].had /\ trace[i].tag = "Err"
          /\ i < Len(trace)
---------------------------------------------------------------------------
(* Properties of a round, stated on what it has processed so far *)

Failed_(i) == trace[i].fetch = "err"

(* Where the warning of the i-th processed entry sits in `warnings` *)
WarnIndex(i) == Cardinality({j \in 1..i : Failed_(j)})

(* C5: the warnings of a round are, in order, one per entry whose fetch   *)
(* failed - the stale-serve message if its key had a cache entry, the     *)
(* no-cache message if not - and nothing else: an entry fetched with      *)
(* success or served by a cache hit adds none.                            *)
C5_WarningsAreTheFailedFetches ==
    /\ Len(warnings) = Cardinality({i \in 1..Len(trace) : Failed_(i)})
    /\ \A i \in 1..Len(trace) :
          Failed_(i) =>
              warnings[WarnIndex(i)] =
                  IF trace[i].had
                  THEN StaleWarning(trace[i].venue, trace[i].symbol, trace[i].err)
                  ELSE NoCacheWarning(trace[i].venue, trace[i].symbol, trace[i].err)

(* A round with a stale serve next to an entry that needed no warning *)
C5_Witness ==
    /\ RoundOver
    /\ \E i, j \in 1..Len(trace) :
          /\ Failed_(i) /\ trace[i].had
          /\ trace[j].fetch \in {"ok", "none"}

SamePair(a, b) == a.venue = b.venue /\ a.symbol = b.symbol

(* No (venue, symbol) pair is configured twice *)
DistinctEntries ==
    \A i, j \in 1..Len(Entries(config)) :
        SamePair(Entries(config)[i], Entries(config)[j]) => i = j

(* The entries are processed one by one in configured order, all of them  *)
(* by the time collect returns, and collect can always take its next step *)
EveryEntryOnce ==
    /\ Len(trace) <= Len(Entries(config))
    /\ \A i \in 1..Len(trace) : SamePair(trace[i], Entries(config)[i])
    /\ pc = "collecting" => Len(trace) = idx - 1
    /\ RoundOver => Len(trace) = Len(Entries(config))
    /\ pc = "collecting" => ENABLED (LoadNext \/ CollectEnd)

SnapshotsOf(entry) ==
    {j \in 1..Len(snapshots) :
        snapshots[j].venue = entry.venue /\ snapshots[j].symbol = entry.symbol}

Occurrences(entry) ==
    {i \in 1..Len(Entries(config)) : SamePair(Entries(config)[i], entry)}

C8_SnapshotsInConfiguredOrder ==
    /\ Len(snapshots) = Cardinality({i \in 1..Len(trace) : trace[i].tag # "Err"})
    /\ \A i \in 1..Len(trace) :
          trace[i].tag # "Err" =>
              SamePair(snapshots[SnapIndex(i)], Entries(config)[i])

(* Two different keys served in one round, one by the cache and one by a  *)
(* fetch that took time                                                   *)
C8_Witness ==
    /\ RoundOver
    /\ Len(snapshots) = 2
    /\ ~SamePair(snapshots[1], snapshots[2])
    /\ \E i, j \in 1..Len(trace) :
          /\ trace[i].fetch = "none"
          /\ trace[j].fetch = "ok"
          /\ snapshots[1].last_updated # snapshots[2].last_updated
---------------------------------------------------------------------------
(* Properties of two rounds in a row *)

(* Two calls of collect have returned, neither with a failed fetch, the   *)
(* TTL is positive and less than the TTL has gone by since the first of   *)
(* the two began.                                                         *)
TwoCleanRoundsWithinTtl ==
    /\ RoundOver
    /\ prev.start >= 1
    /\ ttl > 0
    /\ prev.clean
    /\ \A i \in 1..Len(trace) : ~Failed_(i)
    /\ clock - prev.start < ttl

FullyCacheServed ==
    \A i \in 1..Len(trace) : trace[i].fetch = "none" /\ trace[i].requests = 0

(* C9 as stated: two calls in a row within the TTL and without failures   *)
(* return the same snapshots, the second from the cache alone.            *)
C9_SecondCallAlwaysCacheServed ==
    TwoCleanRoundsWithinTtl =>
        /\ snapshots = prev.snapshots
        /\ FullyCacheServed

(* C9, amended: two calls in a row within the TTL and without failures,   *)
(* the first of which fetched every entry (served none from the cache),   *)
(* return the same snapshots, and the second call is served from the      *)
(* cache alone, which it leaves as it was.                                *)
C9_IdempotentAfterFullFetch ==
    /\ []((TwoCleanRoundsWithinTtl /\ prev.hits = 0) =>
            /\ snapshots = prev.snapshots
            /\ FullyCacheServed)
    /\ [][ (LoadStep /\ prev.start >= 1 /\ ttl > 0 /\ prev.clean /\ prev.hits = 0
              /\ clock' - prev.start < ttl /\ warnings = <<>>
              /\ Last(trace').fetch # "err") =>
             cache' = cache ]_vars

(* The second of two such calls has returned two snapshots *)
C9_Witness ==
    /\ TwoCleanRoundsWithinTtl
    /\ prev.hits = 0
    /\ Len(prev.snapshots) = 2
    /\ Len(snapshots) = 2

---------------------------------------------------------------------------
(* The status label *)

(* C10: once collect has returned, the label is the stable one exactly    *)
(* when the returned outcome has no warning and the degraded one exactly  *)
(* when it has some, whatever the rounds before; with nothing configured  *)
(* the outcome is empty and the label stable.                             *)
C10_StatusFollowsLastRound ==
    RoundOver =>
        /\ status_label = "Live feeds stable" <=> warnings = <<>>
        /\ status_label = "Live feeds (degraded)" <=> Len(warnings) >= 1
        /\ Entries(config) = <<>> =>
              /\ snapshots = <<>>
              /\ warnings = <<>>
              /\ status_label = "Live feeds stable"

(* A clean round right after one with warnings: the label is stable again *)
C10_Witness ==
    /\ RoundOver
    /\ prev.start >= 1
    /\ ~prev.clean
    /\ Len(trace) >= 1
    /\ warnings = <<>>
    /\ status_label = "Live feeds stable"
---------------------------------------------------------------------------
(* Pairs fetch_snapshot has no adapter for *)

KnownPairs ==
    { [venue |-> "Bitfinex", symbol |-> "tBTCUSD"],
      [venue |-> "Bitfinex", symbol |-> "tBTCF0:USTF0"],
      [venue |-> "Deribit", symbol |-> "BTC-USD"],
      [venue |-> "Deribit", symbol |-> "BTC-PERPETUAL"] }

UnsupportedError(venue, symbol) ==
    "unsupported venue/symbol combination: " \o venue \o " " \o symbol

(* C11: an entry whose pair is none of the four known ones fails at once, *)
(* no request being sent; it adds no snapshot and one warning naming the  *)
(* pair; no cache entry exists for it before or after; and collect goes   *)
(* on with the next entry.                                                *)
C11_UnknownPairFailsWithoutRequest ==
    /\ [][ (LoadStep /\ CurEntry \notin KnownPairs) =>
             /\ Last(trace').fetch = "err"
             /\ Last(trace').requests = 0
             /\ snapshots' = snapshots
             /\ warnings' = Append(warnings,
                    NoCacheWarning(CurEntry.venue, CurEntry.symbol,
                        UnsupportedError(CurEntry.venue, CurEntry.symbol)))
             /\ cache' = cache
             /\ pc' = "collecting"
             /\ idx' = idx + 1 ]_vars
    /\ [](\A i \in 1..Len(Entries(config)) :
             Entries(config)[i] \notin KnownPairs =>
                 cache_key(Entries(config)[i].venue, Entries(config)[i].symbol)
                     \notin DOMAIN cache)

(* A round that failed an unknown pair and then fetched the next entry *)
C11_Witness ==
    /\ RoundOver
    /\ \E i \in 1..Len(trace) :
          /\ [venue |-> trace[i].venue, symbol |-> trace[i].symbol] \notin KnownPairs
          /\ trace[i].tag = "Err" /\ trace[i].requests = 0
          /\ i < Len(trace) /\ trace[i + 1].fetch = "ok"
---------------------------------------------------------------------------
(* C13: no step removes a cache entry; a step that is not a successful    *)
(* fetch (a hit, a failed fetch, any step outside load_snapshot) leaves   *)
(* the whole cache, fetched_at included, as it was; a successful fetch    *)
(* writes the fetched key's entry, holding the snapshot it returned and   *)
(* the time of the fetch, and leaves every other entry as it was.         *)
C13_OnlyOkFetchWritesItsKey ==
    [][ /\ DOMAIN cache \subseteq DOMAIN cache'
        /\ ~(LoadStep /\ Last(trace').fetch = "ok") => cache' = cache
        /\ (LoadStep /\ Last(trace').fetch = "ok") =>
              /\ DOMAIN cache' = DOMAIN cache \cup {CurKey}
              /\ \A k \in DOMAIN cache \ {CurKey} : cache'[k] = cache[k]
              /\ cache'[CurKey] = CachedSnapshot(Last(snapshots'), clock')
              /\ Last(snapshots').last_updated = clock' ]_vars

(* A round in which one key's fetch failed with an older entry in the     *)
(* cache, the entry being still there, and another key was cache-served   *)
C13_Witness ==
    /\ RoundOver
    /\ \E i, j \in 1..Len(trace) :
          /\ Failed_(i) /\ trace[i].had
          /\ TraceKey(i) \in DOMAIN cache
          /\ cache[TraceKey(i)].fetched_at < round_start
          /\ trace[j].fetch = "none"
---------------------------------------------------------------------------
(* A price the upstream response carried: the upstream's prices are       *)
(* Prices, so any other value in a snapshot was filled in by the adapter. *)
LocatedPrices(snapshot) ==
    /\ snapshot.spot_price \in Prices
    /\ IsSome(snapshot.perp_price) => Unwrap(snapshot.perp_price) \in Prices

(* C15: a snapshot exists only if its instrument's price was located in   *)
(* the response: no snapshot collected in a round and no snapshot held in *)
(* the cache has a price the response did not carry; a response without   *)
(* the price makes the fetch fail instead.                                *)
C15_SnapshotOnlyWithLocatedPrice ==
    /\ \A j \in 1..Len(snapshots) : LocatedPrices(snapshots[j])
    /\ \A k \in DOMAIN cache : LocatedPrices(cache[k].snapshot)
---------------------------------------------------------------------------
(* The round before the current one was a whole round of this             *)
(* configuration                                                          *)
HadRound == prev.start >= 1 /\ Len(prev.fetch) = Len(Entries(config))

---------------------------------------------------------------------------
(* The host's display after a tick: src/src/app.rs *)

(* The snapshots this round served from a successful fetch or a cache hit *)
FreshServed ==
    {snapshots[SnapIndex(i)] : i \in {k \in 1..Len(trace) : trace[k].tag = "Fresh"}}

(* Some displayed snapshot was not served fresh by this tick *)
ShowsUnrefreshed ==
    \E j \in 1..Len(market_snapshots) : market_snapshots[j] \notin FreshServed

(* C12 as stated: after every tick the displayed warnings are the         *)
(* outcome's, a displayed snapshot that this tick did not serve fresh     *)
(* comes with a non-empty displayed warning list, and tick returned Ok.   *)
C12_DegradedDataNeverHidden ==
    RoundOver =>
        /\ state_warnings = warnings
        /\ ShowsUnrefreshed => state_warnings # <<>>
        /\ tick_result = Some("Ok")

(* C12, amended: after every tick the displayed warnings are the          *)
(* outcome's and tick returned Ok whatever the fetches did; the displayed *)
(* snapshots are the outcome's unless the outcome has none, in which case *)
(* the display keeps what it showed; and when at least one entry is       *)
(* configured, a displayed snapshot that this tick did not serve fresh    *)
(* comes with a non-empty displayed warning list.                         *)
C12_DisplayFollowsTick ==
    /\ [](RoundOver =>
            /\ state_warnings = warnings
            /\ tick_result = Some("Ok")
            /\ snapshots # <<>> => market_snapshots = snapshots
            /\ (Entries(config) # <<>> /\ ShowsUnrefreshed) =>
                   state_warnings # <<>>)
    /\ [][ (pc = "collecting" /\ pc' = "idle") =>
             /\ tick_result' = Some("Ok")
             /\ snapshots = <<>> => market_snapshots' = market_snapshots ]_vars

(* A tick after a clean one in which a key was served stale and another   *)
(* fresh: the display shows both and the warning that replaced none       *)
C12_Witness ==
    /\ RoundOver
    /\ prev.start >= 1 /\ prev.clean
    /\ Len(market_snapshots) = 2
    /\ \E i, j \in 1..Len(trace) : trace[i].tag = "Stale" /\ trace[j].tag = "Fresh"
    /\ ShowsUnrefreshed
    /\ Len(state_warnings) = 1

====
